---------------------------- MODULE Spec2Model ----------------------------
(***************************************************************************)
(* A model of the customer-onboarding upload service:                      *)
(*   src/main.py                      signup, login                        *)
(*   src/app/auth.py                  password hashing, JWT issue/verify   *)
(*   src/app/api/upload.py            POST /upload and the extractors      *)
(*   src/app/utils/file_utils.py      save_and_validate_file               *)
(*   src/app/services/validation.py   OnboardingDataModel                  *)
(*   src/app/utils/api_client.py      send_data_to_saas_api                *)
(*                                                                         *)
(* Text is modelled as a sequence of one-character strings wherever the    *)
(* code looks inside it (names, emails, table cells, PDF tokens); file     *)
(* names, which the code only concatenates and compares, are strings.      *)
(* Time is in whole seconds, the resolution of int(time.time()) and of a   *)
(* JWT exp claim.                                                          *)
(***************************************************************************)
EXTENDS Integers, Sequences, FiniteSets, TLC

VARIABLES
    fake_users_db,  \* auth.py:25, username -> UserInDB
    uploads,        \* the files under UPLOAD_DIR, stored name -> content
    hits,           \* the limiter's storage, client host -> [start, count]
    now,            \* the clock, seconds
    ticks,          \* how often the clock has advanced (bounds the model)
    token,          \* the client's access token from its last login, <<>> if none
    call,           \* the arguments of the function under test (pure specs)
    last            \* the last request and its response

vars == <<fake_users_db, uploads, hits, now, ticks, token, call, last>>

None == "None"

(***************************************************************************)
(* Bounds of the model.                                                    *)
(***************************************************************************)
MaxTicks == 1
MaxFiles == 2
MaxNameLen == 3
MaxEmailLen == 6
MaxRequests == 7
MaxSignups == 3
MaxLines == 3

(***************************************************************************)
(* Program constants.                                                      *)
(***************************************************************************)
ACCESS_TOKEN_EXPIRE_MINUTES == 30
DEFAULT_EXPIRE_MINUTES == 15
UPLOAD_LIMIT == 5
SECONDS_PER_MINUTE == 60

SECRET_KEY == "SECRET_KEY"
MOCK_API_KEY == "cQb1fAf7rzwYGw4Kw4qGekpm8uOvv3nA"

Usernames == {"alice", "bob"}
Passwords == {"pw1", "pw2"}
Clients == {"10.0.0.1"}

(***************************************************************************)
(* Characters.                                                             *)
(***************************************************************************)
Lowercase == {"a", "b", "c", "d", "e", "h", "i", "j", "m", "n", "o", "x"}
Uppercase == {"D", "J", "N"}
Letters == Lowercase \cup Uppercase
Digits == {"0", "1", "2", "3", "4", "5", "6", "7", "8", "9"}

\* str.isalpha(): non-empty and every character alphabetic
isalpha(s) == Len(s) >= 1 /\ \A i \in 1..Len(s) : s[i] \in Letters

\* str.isdigit() and the regex ^\d+$
isdigit(s) == Len(s) >= 1 /\ \A i \in 1..Len(s) : s[i] \in Digits

\* str.replace(" ", "")
RemoveSpaces(s) == SelectSeq(s, LAMBDA c : c # " ")

DigitValue(c) ==
    CASE c = "0" -> 0 [] c = "1" -> 1 [] c = "2" -> 2 [] c = "3" -> 3
      [] c = "4" -> 4 [] c = "5" -> 5 [] c = "6" -> 6 [] c = "7" -> 7
      [] c = "8" -> 8 [] c = "9" -> 9

\* int(s) of an all-digit text
RECURSIVE ParseInt(_)
ParseInt(s) ==
    IF s = <<>> THEN 0
    ELSE 10 * ParseInt(SubSeq(s, 1, Len(s) - 1)) + DigitValue(s[Len(s)])

\* str.strip() of spaces
RECURSIVE strip(_)
strip(s) ==
    IF s = <<>> THEN s
    ELSE IF Head(s) = " " THEN strip(Tail(s))
    ELSE IF s[Len(s)] = " " THEN strip(SubSeq(s, 1, Len(s) - 1))
    ELSE s

(***************************************************************************)
(* Exceptions: a chain of frames, the outermost first.  A handler that     *)
(* catches an exception and raises an HTTPException embedding str(e)       *)
(* prepends a frame.                                                       *)
(***************************************************************************)
HTTPException(status, detail) ==
    <<[exc |-> "HTTPException", status |-> status, detail |-> detail]>>

Raised(exc, detail) ==
    <<[exc |-> exc, status |-> 0, detail |-> detail]>>

Wrap(status, detail, e) == HTTPException(status, detail) \o e

(***************************************************************************)
(* services/validation.py                                                  *)
(***************************************************************************)

\* Field(pattern=r"[^@]+@[^@]+\.[^@]+"): the pattern is searched for, not
\* anchored: some "@" has a non-"@" character before it and, after it, a
\* run of non-"@" characters that holds a "." which is neither the run's
\* first nor its last character.
EmailPatternFound(s) ==
    \E p \in 2..Len(s) :
        /\ s[p] = "@"
        /\ s[p - 1] # "@"
        /\ \E q \in (p + 2)..(Len(s) - 1) :
              /\ s[q] = "."
              /\ \A i \in (p + 1)..(q + 1) : s[i] # "@"

\* name: str = Field(..., min_length=1), then the validator
\* name_must_be_alpha, which runs only on a value that passed the field check
NameErrors(v) ==
    IF Len(v) < 1 THEN <<"name">>
    ELSE IF ~isalpha(RemoveSpaces(v)) THEN <<"name">>
    ELSE <<>>

EmailErrors(v) == IF EmailPatternFound(v) THEN <<>> ELSE <<"email">>

\* age: int = Field(..., gt=0), on an integer (the model's ages are integers)
AgeErrorsGe(v) == IF ~(v >= 0) THEN <<"age">> ELSE <<>>

AgeErrors(v) == IF ~(v > 0) THEN <<"age">> ELSE <<>>

\* The ValidationError's entries, one loc per failing field, in field order.
ValidationErrors(data) ==
    NameErrors(data.name) \o EmailErrors(data.email) \o AgeErrors(data.age)

\* OnboardingDataModel(**data).dict(), or ValueError(e.json()); value is the
\* returned dict, if any, as a sequence of at most one element
validate_onboarding_data(data) ==
    LET errs == ValidationErrors(data)
    IN  IF errs = <<>>
        THEN [ok |-> TRUE,
              value |-> <<[name |-> data.name, email |-> data.email, age |-> data.age]>>,
              loc |-> <<>>]
        ELSE [ok |-> FALSE, value |-> <<>>, loc |-> errs]

(***************************************************************************)
(* auth.py                                                                 *)
(***************************************************************************)

\* pwd_context.hash / pwd_context.verify
get_password_hash(password) == <<"bcrypt", password>>

verify_password(plain_password, hashed_password) ==
    hashed_password = get_password_hash(plain_password)

\* A compact JWT: whether it splits into three segments, the key that signed
\* it, whether its payload is JSON, and the claims.
Jwt(key, sub, exp) ==
    [wellformed |-> TRUE, key |-> key, json |-> TRUE, sub |-> sub, exp |-> exp]

\* create_access_token.  expires_delta is <<>> for None and <<d>> for a
\* timedelta of d seconds; "if expires_delta:" is false for None and for a
\* zero timedelta alike.
create_access_token(data, expires_delta, utcnow) ==
    LET expire == IF expires_delta # <<>> /\ expires_delta[1] # 0
                  THEN utcnow + expires_delta[1]
                  ELSE utcnow + DEFAULT_EXPIRE_MINUTES * SECONDS_PER_MINUTE
    IN  Jwt(SECRET_KEY, data.sub, expire)

\* authenticate_user
authenticate_user(db, username, password) ==
    IF username \notin DOMAIN db THEN FALSE
    ELSE IF ~verify_password(password, db[username].hashed_password) THEN FALSE
    ELSE TRUE

Unauthorized(detail) == HTTPException(401, detail)

\* a decoder that does not look at the exp claim (not the code's)
JwtDecodeFailsNoExp(t, utcnow) ==
    \/ ~t.wellformed
    \/ t.key # SECRET_KEY
    \/ ~t.json

\* jwt.decode raises JWTError on a malformed token, a bad signature, an
\* unparsable payload and an exp claim in the past (exp < now)
JwtDecodeFails(t, utcnow) ==
    \/ ~t.wellformed
    \/ t.key # SECRET_KEY
    \/ ~t.json
    \/ t.exp < utcnow

verify_token(t, utcnow) ==
    IF JwtDecodeFails(t, utcnow)
    THEN [ok |-> FALSE, username |-> None,
          error |-> Unauthorized("Invalid authentication credentials")]
    ELSE IF t.sub = None
    THEN [ok |-> FALSE, username |-> None,
          error |-> Unauthorized("Invalid authentication credentials")]
    ELSE [ok |-> TRUE, username |-> t.sub, error |-> <<>>]

\* get_current_user: OAuth2PasswordBearer answers 401 when the request has no
\* bearer token, else verify_token
NoToken == [wellformed |-> FALSE, key |-> None, json |-> FALSE, sub |-> None, exp |-> 0,
            absent |-> TRUE]

get_current_user(t, utcnow) ==
    IF t = NoToken
    THEN [ok |-> FALSE, username |-> None, error |-> Unauthorized("Not authenticated")]
    ELSE verify_token(t, utcnow)


(***************************************************************************)
(* utils/file_utils.py                                                     *)
(***************************************************************************)
ALLOWED_SUFFIXES == {".csv", ".xlsx", ".pdf", ".docx", ".json"}

\* a dict with key k set to v
Put(f, k, v) == [x \in DOMAIN f \cup {k} |-> IF x = k THEN v ELSE f[x]]

\* f"{file_path.stem}_{timestamp}{file_path.suffix}"
TimestampedName(stem, timestamp, suffix) ==
    stem \o "_" \o ToString(timestamp) \o suffix

\* a materializer that writes the file first and checks the suffix after
\* (not the code's)
SaveThenValidate(files, file, time) ==
    [ok |-> file.suffix \in ALLOWED_SUFFIXES,
     path |-> file.stem \o file.suffix,
     files |-> Put(files, file.stem \o file.suffix, file.body),
     collided |-> FALSE,
     error |-> IF file.suffix \in ALLOWED_SUFFIXES THEN <<>>
               ELSE HTTPException(400, "Unsupported file type")]

\* save_and_validate_file: the suffix check, then the collision rename (made
\* once, without looking whether the new name is free), then open(.., "wb")
\* and write, which replaces whatever the path held.
save_and_validate_file(files, file, time) ==
    LET file_path == file.stem \o file.suffix
    IN  IF file.suffix \notin ALLOWED_SUFFIXES
        THEN [ok |-> FALSE, path |-> None, files |-> files, collided |-> FALSE,
              error |-> HTTPException(400, "Unsupported file type")]
        ELSE LET collided == file_path \in DOMAIN files
                 target == IF collided
                           THEN TimestampedName(file.stem, time, file.suffix)
                           ELSE file_path
             IN  [ok |-> TRUE, path |-> target, files |-> Put(files, target, file.body),
                  collided |-> collided, error |-> <<>>]

(***************************************************************************)
(* api/upload.py: the extractors                                           *)
(***************************************************************************)
JSON_TYPE == "application/json"
CSV_TYPE == "text/csv"
XLS_TYPE == "application/vnd.ms-excel"
XLSX_TYPE == "application/vnd.openxmlformats-officedocument.spreadsheetml.sheet"
PDF_TYPE == "application/pdf"
DOCX_TYPE == "application/vnd.openxmlformats-officedocument.wordprocessingml.document"

SUPPORTED_TYPES == {JSON_TYPE, CSV_TYPE, XLS_TYPE, XLSX_TYPE, PDF_TYPE, DOCX_TYPE}

\* pd.read_json / pd.read_csv / pd.read_excel(...).to_dict(orient='records'):
\* one record per row; a file that is not of the format makes the reader raise
ReadTabular(body, format) ==
    IF body.format = format
    THEN [ok |-> TRUE, records |-> body.rows, error |-> <<>>]
    ELSE [ok |-> FALSE, records |-> <<>>, error |-> Raised("ParserError", "cannot parse file")]

\* name, email and age of one table row, stripped
DocxRecord(row) ==
    [name |-> strip(row[1]), email |-> strip(row[2]), age |-> ParseInt(strip(row[3]))]

\* handle_docx, the loop over the rows of one table: row 0 is the header,
\* a row with fewer than three cells raises IndexError, a row whose age cell
\* is not all digits is skipped
RECURSIVE DocxRows(_, _, _)
DocxRows(rows, i, extracted_data) ==
    IF i > Len(rows) THEN [ok |-> TRUE, records |-> extracted_data]
    ELSE IF i > 1 /\ Len(rows[i]) < 3 THEN [ok |-> FALSE, records |-> extracted_data]
    ELSE DocxRows(rows, i + 1,
                  IF i > 1 /\ isdigit(strip(rows[i][3]))
                  THEN Append(extracted_data, DocxRecord(rows[i]))
                  ELSE extracted_data)

\* handle_docx, the loop over doc.tables
RECURSIVE DocxTables(_, _)
DocxTablesNext(rest, r) == IF ~r.ok THEN r ELSE DocxTables(rest, r.records)

DocxTables(tables, extracted_data) ==
    IF tables = <<>> THEN [ok |-> TRUE, records |-> extracted_data]
    ELSE DocxTablesNext(Tail(tables), DocxRows(Head(tables), 1, extracted_data))

\* handle_docx's outcome: every exception of the body, its own HTTPException
\* for "no data" included, is caught and raised again as a 400
DocxOutcome(r) ==
    IF ~r.ok
    THEN [ok |-> FALSE, records |-> <<>>,
          error |-> Wrap(400, "Error processing DOCX file: ",
                         Raised("IndexError", "tuple index out of range"))]
    ELSE IF r.records = <<>>
    THEN [ok |-> FALSE, records |-> <<>>,
          error |-> Wrap(400, "Error processing DOCX file: ",
                         HTTPException(400, "No valid data found in the DOCX file"))]
    ELSE [ok |-> TRUE, records |-> r.records, error |-> <<>>]

handle_docx(body) ==
    IF body.format # "docx"
    THEN [ok |-> FALSE, records |-> <<>>,
          error |-> Wrap(400, "Error processing DOCX file: ",
                         Raised("PackageNotFoundError", "not a Word file"))]
    ELSE DocxOutcome(DocxTables(body.tables, <<>>))

\* str.lower() of one character
lower(c) ==
    CASE c = "D" -> "d" [] c = "J" -> "j" [] c = "N" -> "n" [] OTHER -> c

\* the length of the first maximal run of non-space characters of a text
\* that starts with one
FirstWordLen(t) ==
    CHOOSE k \in 1..Len(t) :
        /\ \A i \in 1..k : t[i] # " "
        /\ k = Len(t) \/ t[k + 1] = " "

\* str.split(): the maximal runs of non-space characters
RECURSIVE split(_)
SplitAt(t, n) == <<SubSeq(t, 1, n)>> \o split(SubSeq(t, n + 1, Len(t)))

SplitStripped(t) == IF t = <<>> THEN <<>> ELSE SplitAt(t, FirstWordLen(t))

split(s) == SplitStripped(strip(s))

\* " ".join(words)
RECURSIVE join(_)
join(words) ==
    IF words = <<>> THEN <<>>
    ELSE IF Len(words) = 1 THEN words[1]
    ELSE words[1] \o <<" ">> \o join(Tail(words))

\* t.lower().startswith('name')
LowerStartsWithName(t) ==
    /\ Len(t) >= 4
    /\ <<lower(t[1]), lower(t[2]), lower(t[3]), lower(t[4])>> = <<"n", "a", "m", "e">>

\* line.strip().lower().startswith('name')
StartsWithName(line) == LowerStartsWithName(strip(line))

\* the least element of a non-empty set of indices
FirstOf(indices) == CHOOSE i \in indices : \A k \in indices : i <= k

\* next((i for i, word in enumerate(columns) if "@" in word), -1), 1-based, 0 for -1
EmailIndex(columns) ==
    IF \A i \in 1..Len(columns) : \A j \in 1..Len(columns[i]) : columns[i][j] # "@"
    THEN 0
    ELSE FirstOf({i \in 1..Len(columns) : \E j \in 1..Len(columns[i]) : columns[i][j] = "@"})

\* re.match(r'^\d+$', age): upload.py never imports re, so evaluating the
\* name raises NameError before any matching is done
re_match_digits(age) == [raises |-> TRUE, matched |-> FALSE]

\* one line of handle_pdf's loop: skipped (header, empty, no email followed
\* by a token), or handed to re.match and, on a match, appended
PdfLine(line, columns, email_idx) ==
    IF StartsWithName(line) \/ strip(line) = <<>>
    THEN [raises |-> FALSE, records |-> <<>>]
    ELSE IF email_idx # 0 /\ Len(columns) > email_idx
    THEN [raises |-> re_match_digits(columns[email_idx + 1]).raises,
          records |-> IF re_match_digits(columns[email_idx + 1]).matched
                      THEN <<[name |-> join(SubSeq(columns, 1, email_idx - 1)),
                              email |-> columns[email_idx],
                              age |-> ParseInt(columns[email_idx + 1])]>>
                      ELSE <<>>]
    ELSE [raises |-> FALSE, records |-> <<>>]

\* handle_pdf, the loop over the lines of the document's pages in order
RECURSIVE PdfLines(_, _)
PdfLinesNext(rest, extracted_data, r) ==
    IF r.raises THEN [ok |-> FALSE, records |-> extracted_data]
    ELSE PdfLines(rest, extracted_data \o r.records)

PdfLineOf(line, columns) == PdfLine(line, columns, EmailIndex(columns))

PdfLines(lines, extracted_data) ==
    IF lines = <<>> THEN [ok |-> TRUE, records |-> extracted_data]
    ELSE PdfLinesNext(Tail(lines), extracted_data, PdfLineOf(Head(lines), split(Head(lines))))

\* handle_pdf's outcome: every exception of the body, its own HTTPException
\* for "no data" included, is caught and raised again as a 400
PdfOutcome(r) ==
    IF ~r.ok
    THEN [ok |-> FALSE, records |-> <<>>,
          error |-> Wrap(400, "Error processing PDF file: ",
                         Raised("NameError", "name 're' is not defined"))]
    ELSE IF r.records = <<>>
    THEN [ok |-> FALSE, records |-> <<>>,
          error |-> Wrap(400, "Error processing PDF file: ",
                         HTTPException(400, "No valid data found in the PDF"))]
    ELSE [ok |-> TRUE, records |-> r.records, error |-> <<>>]

handle_pdf(body) ==
    IF body.format # "pdf"
    THEN [ok |-> FALSE, records |-> <<>>,
          error |-> Wrap(400, "Error processing PDF file: ",
                         Raised("PDFSyntaxError", "not a PDF file"))]
    ELSE PdfOutcome(PdfLines(body.lines, <<>>))

(***************************************************************************)
(* mock_saas/mock_saas_api.py and utils/api_client.py                      *)
(***************************************************************************)

\* submit_data: 401 unless the x-api-key header is the mock's key
submit_data(payload, x_api_key) == IF x_api_key # MOCK_API_KEY THEN 401 ELSE 200

\* a forwarder that makes one POST per record (not the code's: it makes one
\* POST for the whole list)
SendPerRecord(data, downstream) ==
    [ok |-> downstream.up /\ downstream.key = MOCK_API_KEY,
     posts |-> [i \in 1..Len(data) |-> [data |-> <<data[i]>>]],
     delivered |-> downstream.up /\ downstream.key = MOCK_API_KEY,
     error |-> IF downstream.up /\ downstream.key = MOCK_API_KEY THEN <<>>
               ELSE Wrap(500, "Failed to connect to SaaS API: ",
                         Raised("ClientConnectorError", "cannot connect to host"))]

\* a forwarder that repeats a failed POST once (not the code's)
SendWithRetry(data, downstream) ==
    IF downstream.up /\ downstream.key = MOCK_API_KEY
    THEN [ok |-> TRUE, posts |-> <<[data |-> data]>>, delivered |-> TRUE, error |-> <<>>]
    ELSE [ok |-> FALSE, posts |-> <<[data |-> data], [data |-> data]>>, delivered |-> FALSE,
          error |-> Wrap(500, "Failed to connect to SaaS API: ",
                         Raised("ClientConnectorError", "cannot connect to host"))]

\* send_data_to_saas_api.  downstream says whether the endpoint can be
\* reached and which key SaaS_API_KEY configures.  One session.post; a
\* status other than 200 raises an HTTPException inside the try, which the
\* "except Exception" below it turns into a 500, as it does a failed connect.
send_data_to_saas_api(data, downstream) ==
    LET payload == [data |-> data]
    IN  IF ~downstream.up
        THEN [ok |-> FALSE, posts |-> <<payload>>, delivered |-> FALSE,
              error |-> Wrap(500, "Failed to connect to SaaS API: ",
                             Raised("ClientConnectorError", "cannot connect to host"))]
        ELSE LET status == submit_data(payload, downstream.key)
             IN  IF status # 200
                 THEN [ok |-> FALSE, posts |-> <<payload>>, delivered |-> FALSE,
                       error |-> Wrap(500, "Failed to connect to SaaS API: ",
                                      HTTPException(status, "Error communicating with SaaS API"))]
                 ELSE [ok |-> TRUE, posts |-> <<payload>>, delivered |-> TRUE,
                       error |-> <<>>]

(***************************************************************************)
(* api/upload.py: upload_file                                              *)
(***************************************************************************)

\* the if/elif chain on file.content_type
ExtractByContentType(file) ==
    CASE file.content_type = JSON_TYPE -> ReadTabular(file.body, "json")
      [] file.content_type = CSV_TYPE -> ReadTabular(file.body, "csv")
      [] file.content_type \in {XLS_TYPE, XLSX_TYPE} -> ReadTabular(file.body, "xlsx")
      [] file.content_type = PDF_TYPE -> handle_pdf(file.body)
      [] file.content_type = DOCX_TYPE -> handle_docx(file.body)
      [] OTHER -> [ok |-> FALSE, records |-> <<>>,
                   error |-> HTTPException(400, "Unsupported file type")]

\* the validation loop: entries in order, appended to validated_data until
\* the first that fails; tried counts the entries validate_onboarding_data
\* was called on
RECURSIVE ValidateEntriesNoStop(_, _, _)
ValidateEntriesNoStop(onboarding_data, i, validated_data) ==
    IF i > Len(onboarding_data)
    THEN [ok |-> TRUE, validated_data |-> validated_data, tried |-> i - 1, loc |-> None]
    ELSE LET r == validate_onboarding_data(onboarding_data[i])
         IN  IF r.ok
             THEN ValidateEntriesNoStop(onboarding_data, i + 1, validated_data \o r.value)
             ELSE ValidateEntriesNoStop(onboarding_data, i + 1, validated_data)

\* a loop that validates every entry and then reports the first failure (not
\* the code's)
ValidateEntriesAll(onboarding_data, i, validated_data) ==
    IF \A k \in i..Len(onboarding_data) : validate_onboarding_data(onboarding_data[k]).ok
    THEN [ok |-> TRUE, validated_data |-> validated_data \o SubSeq(onboarding_data, i, Len(onboarding_data)),
          tried |-> Len(onboarding_data), loc |-> None]
    ELSE [ok |-> FALSE, validated_data |-> validated_data, tried |-> Len(onboarding_data),
          loc |-> validate_onboarding_data(
                      onboarding_data[CHOOSE k \in i..Len(onboarding_data) :
                          /\ ~validate_onboarding_data(onboarding_data[k]).ok
                          /\ \A j \in i..(k - 1) :
                                validate_onboarding_data(onboarding_data[j]).ok]).loc[1]]

RECURSIVE ValidateEntries(_, _, _)
ValidateEntries(onboarding_data, i, validated_data) ==
    IF i > Len(onboarding_data)
    THEN [ok |-> TRUE, validated_data |-> validated_data, tried |-> i - 1, loc |-> None]
    ELSE LET r == validate_onboarding_data(onboarding_data[i])
         IN  IF r.ok
             THEN ValidateEntries(onboarding_data, i + 1, validated_data \o r.value)
             ELSE [ok |-> FALSE, validated_data |-> validated_data, tried |-> i,
                   loc |-> r.loc[1]]

Steps(n, step) == [i \in 1..n |-> step]

SUCCESS_MESSAGE ==
    "File uploaded, data validated, saved, and successfully sent to the SaaS platform."

\* "except Exception as e": catches every exception of the try block, the
\* HTTPExceptions raised in it included, and answers 500
InternalError(e) == Wrap(500, "An error occurred: ", e)

\* a response body: its text and the access token it carries, if any
Body(text, access_token) == [text |-> text, token |-> access_token]
NoBody == Body(None, <<>>)

\* a failure that clears the upload directory (not the code's)
FailureCleansUp(files, steps, posts, e) ==
    [status |-> 500, error |-> Wrap(500, "An error occurred: ", e),
     body |-> [text |-> None, token |-> <<>>],
     files |-> [p \in {} |-> None], steps |-> steps, posts |-> posts]

Failure(files, steps, posts, e) ==
    [status |-> 500, error |-> InternalError(e), body |-> NoBody,
     files |-> files, steps |-> steps, posts |-> posts]

ValidatingSteps(v) == <<"write", "extract">> \o Steps(v.tried, "validate")

\* upload_file after the downstream call f
upload_file_respond(files, steps, f) ==
    IF ~f.ok THEN Failure(files, steps, f.posts, f.error)
    ELSE [status |-> 200, error |-> <<>>, body |-> Body(SUCCESS_MESSAGE, <<>>),
          files |-> files, steps |-> steps, posts |-> f.posts]

\* upload_file after the validation loop v
upload_file_send(files, v, downstream) ==
    IF ~v.ok
    THEN Failure(files, ValidatingSteps(v), <<>>,
                 HTTPException(400, "Validation error in " \o v.loc \o " column data"))
    ELSE upload_file_respond(files, Append(ValidatingSteps(v), "post"),
                             send_data_to_saas_api(v.validated_data, downstream))

\* upload_file after the extraction x
upload_file_validate(files, x, file, downstream) ==
    IF ~x.ok
    THEN Failure(files,
                 IF file.content_type \in SUPPORTED_TYPES
                 THEN <<"write", "extract">> ELSE <<"write">>,
                 <<>>, x.error)
    ELSE upload_file_send(files, ValidateEntries(x.records, 1, <<>>), downstream)

\* upload_file after save_and_validate_file's outcome s
upload_file_extract(files, s, file, downstream) ==
    IF ~s.ok THEN Failure(s.files, <<>>, <<>>, s.error)
    ELSE upload_file_validate(s.files, ExtractByContentType(file), file, downstream)

\* the body of upload_file, for a request that passed the dependency and the
\* limiter
upload_file(files, file, downstream, time) ==
    upload_file_extract(files, save_and_validate_file(files, file, time), file, downstream)

(***************************************************************************)
(* @limiter.limit("5/minute"), keyed by request.client.host: a fixed       *)
(* window that opens at a client's first counted request.  The counter is  *)
(* kept at most one above the limit, beyond which it decides nothing.      *)
(***************************************************************************)
NoHits == [start |-> 0, count |-> 0]

\* a limiter that opens a new window at every request (not the code's)
LimiterHitForgetful(entry, time) == [start |-> time, count |-> 1]

LimiterHit(entry, time) ==
    IF entry.count = 0 \/ time >= entry.start + SECONDS_PER_MINUTE
    THEN [start |-> time, count |-> 1]
    ELSE [start |-> entry.start,
          count |-> IF entry.count > UPLOAD_LIMIT THEN entry.count ELSE entry.count + 1]

RateLimitExceeded == HTTPException(429, "5 per 1 minute")


(***************************************************************************)
(* The requests the model makes.                                           *)
(***************************************************************************)
Jane == [name |-> <<"J", "a", "n", "e", " ", "D", "o", "e">>,
         email |-> <<"j", "a", "n", "e", "@", "x", ".", "c", "o", "m">>,
         age |-> 30]
Dan == [name |-> <<"D", "a", "n">>,
        email |-> <<"d", "a", "n", "@", "x", ".", "c", "o", "m">>,
        age |-> 41]
John3 == [name |-> <<"J", "o", "h", "n", "3">>,
          email |-> <<"j", "o", "h", "n", "@", "x", ".", "c", "o", "m">>,
          age |-> 25]
Newborn == [name |-> <<"D", "a", "n">>,
            email |-> <<"d", "a", "n", "@", "x", ".", "c", "o", "m">>,
            age |-> 0]

Csv(rows) == [format |-> "csv", rows |-> rows]

File(stem, suffix, content_type, body) ==
    [stem |-> stem, suffix |-> suffix, content_type |-> content_type, body |-> body]

HeaderRow == <<<<"n", "a", "m", "e">>, <<"e", "m", "a", "i", "l">>, <<"a", "g", "e">>>>
DanRow == <<<<"D", "a", "n", " ">>, Dan.email, <<" ", "4", "1">>>>
NoAgeRow == <<<<"D", "a", "n">>, Dan.email, <<"x">>>>

GoodCsv == File("data", ".csv", CSV_TYPE, Csv(<<Jane, Dan>>))
BadLastCsv == File("data", ".csv", CSV_TYPE, Csv(<<Jane, John3>>))
BadFirstCsv == File("data", ".csv", CSV_TYPE, Csv(<<Newborn, Jane>>))
BadNameFirstCsv == File("data", ".csv", CSV_TYPE, Csv(<<John3, Jane>>))
TxtFile == File("data", ".txt", CSV_TYPE, Csv(<<Jane>>))
PlainTypeCsv == File("data", ".csv", "text/plain", Csv(<<Jane>>))
GoodDocx == File("form", ".docx", DOCX_TYPE,
                 [format |-> "docx", tables |-> <<<<HeaderRow, DanRow>>>>])
EmptyDocx == File("form", ".docx", DOCX_TYPE,
                  [format |-> "docx", tables |-> <<<<HeaderRow, NoAgeRow>>>>])
HeaderPdf == File("scan", ".pdf", PDF_TYPE,
                  [format |-> "pdf", lines |-> <<<<"N", "a", "m", "e", " ", "a", "g", "e">>, <<" ">>>>])

Files == {GoodCsv, BadLastCsv, BadFirstCsv, BadNameFirstCsv, TxtFile, PlainTypeCsv,
          GoodDocx, EmptyDocx, HeaderPdf}

Downstreams == {[up |-> TRUE, key |-> MOCK_API_KEY],
                [up |-> TRUE, key |-> "wrong-key"],
                [up |-> FALSE, key |-> MOCK_API_KEY]}

TOKEN_TTL == ACCESS_TOKEN_EXPIRE_MINUTES * SECONDS_PER_MINUTE

Malformed == [wellformed |-> FALSE, key |-> None, json |-> FALSE, sub |-> None, exp |-> 0]
BadPayload == [wellformed |-> TRUE, key |-> SECRET_KEY, json |-> FALSE, sub |-> None, exp |-> 0]

\* tokens that do not verify at the given time
BadTokens(time) ==
    {NoToken, Malformed, BadPayload,
     Jwt("attacker-key", "alice", time + TOKEN_TTL),
     Jwt(SECRET_KEY, None, time + TOKEN_TTL),
     Jwt(SECRET_KEY, "alice", time - 1)}

\* a token as a login at the given time issues it
FreshToken(time) == Jwt(SECRET_KEY, "alice", time + TOKEN_TTL)

Accepting == [up |-> TRUE, key |-> MOCK_API_KEY]

\* a second, the limiter's window, just over a token's lifetime
TickSteps == {1, SECONDS_PER_MINUTE, TOKEN_TTL + 1}

(***************************************************************************)
(* The handlers.                                                           *)
(***************************************************************************)
Response(op, req, status, error, headers, body, steps, posts) ==
    [op |-> op, req |-> req, status |-> status, error |-> error, headers |-> headers,
     body |-> body, steps |-> steps, posts |-> posts]

NoHeaders == <<>>
BearerChallenge == <<"WWW-Authenticate", "Bearer">>

\* a signup that stores the user whether or not the username is taken (not
\* the code's)
SignupOverwrite(username, password) ==
    /\ fake_users_db' = Put(fake_users_db, username,
                            [username |-> username,
                             email |-> username \o "@example.com",
                             full_name |-> None,
                             hashed_password |-> get_password_hash(password)])
    /\ last' = Response("signup", [username |-> username, password |-> password], 200,
                        <<>>, NoHeaders, Body(username, <<>>), <<>>, <<>>)
    /\ UNCHANGED <<uploads, hits, now, ticks, token, call>>

\* main.py: signup
Signup(username, password) ==
    LET req == [username |-> username, password |-> password]
    IN  /\ IF username \in DOMAIN fake_users_db
           THEN /\ last' = Response("signup", req, 400,
                                    HTTPException(400, "Username already registered"),
                                    NoHeaders, NoBody, <<>>, <<>>)
                /\ UNCHANGED fake_users_db
           ELSE LET user_in_db == [username |-> username,
                                   email |-> username \o "@example.com",
                                   full_name |-> None,
                                   hashed_password |-> get_password_hash(password)]
                IN  /\ fake_users_db' = Put(fake_users_db, username, user_in_db)
                    /\ last' = Response("signup", req, 200, <<>>, NoHeaders,
                                        Body(user_in_db.username, <<>>), <<>>, <<>>)
        /\ UNCHANGED <<uploads, hits, now, ticks, token, call>>

\* a login that tells an unknown username from a wrong password (not the
\* code's)
LoginRevealing(username, password) ==
    /\ IF username \notin DOMAIN fake_users_db
       THEN /\ last' = Response("login", [username |-> username, password |-> password],
                                401, Unauthorized("Unknown username"),
                                BearerChallenge, NoBody, <<>>, <<>>)
            /\ UNCHANGED token
       ELSE IF ~verify_password(password, fake_users_db[username].hashed_password)
       THEN /\ last' = Response("login", [username |-> username, password |-> password],
                                401, Unauthorized("Incorrect username or password"),
                                BearerChallenge, NoBody, <<>>, <<>>)
            /\ UNCHANGED token
       ELSE /\ token' = <<create_access_token([sub |-> username], <<TOKEN_TTL>>, now)>>
            /\ last' = Response("login", [username |-> username, password |-> password],
                                200, <<>>, NoHeaders,
                                Body("bearer", <<create_access_token([sub |-> username],
                                                                     <<TOKEN_TTL>>, now)>>),
                                <<>>, <<>>)
    /\ UNCHANGED <<fake_users_db, uploads, hits, now, ticks, call>>

\* main.py: login
Login(username, password) ==
    LET req == [username |-> username, password |-> password]
    IN  /\ IF ~authenticate_user(fake_users_db, username, password)
           THEN /\ last' = Response("login", req, 401,
                                    Unauthorized("Incorrect username or password"),
                                    BearerChallenge, NoBody, <<>>, <<>>)
                /\ UNCHANGED token
           ELSE LET access_token ==
                        create_access_token([sub |-> fake_users_db[username].username],
                                            <<TOKEN_TTL>>, now)
                IN  /\ token' = <<access_token>>
                    /\ last' = Response("login", req, 200, <<>>, NoHeaders,
                                        Body("bearer", <<access_token>>), <<>>, <<>>)
        /\ UNCHANGED <<fake_users_db, uploads, hits, now, ticks, call>>

\* POST /upload for a request whose token verified: the limiter's check
\* (entry is the client's counter after this request), then upload_file
\* with outcome r
UploadLimited(req, entry, r) ==
    /\ hits' = [hits EXCEPT ![req.client] = entry]
    /\ IF entry.count > UPLOAD_LIMIT
       THEN /\ last' = Response("upload", req, 429, RateLimitExceeded,
                                NoHeaders, NoBody, <<>>, <<>>)
            /\ UNCHANGED uploads
       ELSE /\ Cardinality(DOMAIN r.files) <= MaxFiles
            /\ uploads' = r.files
            /\ last' = Response("upload", req, r.status, r.error, NoHeaders,
                                r.body, r.steps, r.posts)

\* POST /upload after the get_current_user dependency's outcome auth
UploadAuthenticated(req, auth) ==
    IF ~auth.ok
    THEN /\ last' = Response("upload", req, 401, auth.error, BearerChallenge,
                             NoBody, <<>>, <<>>)
         /\ UNCHANGED <<hits, uploads>>
    ELSE UploadLimited(req, LimiterHit(hits[req.client], now),
                       upload_file(uploads, req.file, req.downstream, now))

\* api/upload.py: POST /upload
Upload(t, client, file, downstream) ==
    /\ UploadAuthenticated([token |-> t, client |-> client, file |-> file,
                            downstream |-> downstream],
                           get_current_user(t, now))
    /\ UNCHANGED <<fake_users_db, now, ticks, token, call>>

\* the limiter's storage drops a counter when its window has passed
ExpireHits(h, time) ==
    [c \in DOMAIN h |->
        IF h[c].count > 0 /\ time >= h[c].start + SECONDS_PER_MINUTE THEN NoHits ELSE h[c]]

\* time passes
Tick(d) ==
    /\ ticks < MaxTicks
    /\ now' = now + d
    /\ ticks' = ticks + 1
    /\ hits' = ExpireHits(hits, now + d)
    /\ UNCHANGED <<fake_users_db, uploads, token, call, last>>

NoCall == [f |-> "none"]
NoRequest == Response("none", [none |-> TRUE], 0, <<>>, NoHeaders, NoBody, <<>>, <<>>)

Init ==
    /\ fake_users_db = [u \in {} |-> None]
    /\ uploads = [p \in {} |-> None]
    /\ hits = [c \in Clients |-> NoHits]
    /\ now = 0
    /\ ticks = 0
    /\ token = <<>>
    /\ call = NoCall
    /\ last = NoRequest

HeldToken == {token[i] : i \in DOMAIN token}

(***************************************************************************)
(* Spec: the whole service.  A client signs up, logs in and uploads CSV    *)
(* files with the token its last login returned (or with none), while      *)
(* time passes.                                                            *)
(***************************************************************************)
Next ==
    \/ \E p \in Passwords : Signup("alice", p)
    \/ \E p \in Passwords : Login("alice", p)
    \/ \E t \in HeldToken \cup {NoToken}, c \in Clients, f \in {GoodCsv, BadLastCsv},
          d \in Downstreams : Upload(t, c, f, d)
    \/ \E d \in TickSteps : Tick(d)

Spec == Init /\ [][Next]_vars

(***************************************************************************)
(* SpecAuth: signup and login requests, one after the other.               *)
(***************************************************************************)
NextAuth ==
    \/ \E u \in Usernames, p \in Passwords : Signup(u, p)
    \/ \E u \in Usernames, p \in Passwords : Login(u, p)
    \/ \E d \in TickSteps : Tick(d)

SpecAuth == Init /\ [][NextAuth]_vars

(***************************************************************************)
(* SpecUpload: upload requests of every kind of file, downstream outcome   *)
(* and token, one after the other.  A token that verifies needs no login   *)
(* of this process: the service keeps no record of the tokens it issued.   *)
(***************************************************************************)
NextUpload ==
    \/ \E c \in Clients, f \in Files, d \in Downstreams :
          Upload(FreshToken(now), c, f, d)
    \/ \E t \in BadTokens(now), c \in Clients : Upload(t, c, GoodCsv, Accepting)

SpecUpload == Init /\ [][NextUpload]_vars

(***************************************************************************)
(* SpecToken: create_access_token and verify_token on their own.  A token  *)
(* is created at some time for some subject and ttl (none, zero or more    *)
(* seconds) and verified as time passes.                                   *)
(***************************************************************************)
Ttls == {<<>>, <<0>>, <<1>>, <<SECONDS_PER_MINUTE>>, <<TOKEN_TTL>>}

CreateToken(sub, expires_delta) ==
    /\ call' = [f |-> "create_access_token", sub |-> sub, expires_delta |-> expires_delta,
                at |-> now]
    /\ token' = <<create_access_token([sub |-> sub], expires_delta, now)>>
    /\ UNCHANGED <<fake_users_db, uploads, hits, now, ticks, last>>

VerifyResponse(req, r) ==
    IF r.ok
    THEN Response("verify", req, 200, <<>>, NoHeaders, Body(r.username, <<>>), <<>>, <<>>)
    ELSE Response("verify", req, 401, r.error, BearerChallenge, NoBody, <<>>, <<>>)

VerifyToken ==
    /\ token # <<>>
    /\ last' = VerifyResponse([token |-> token[1], at |-> now], verify_token(token[1], now))
    /\ UNCHANGED <<fake_users_db, uploads, hits, now, ticks, token, call>>

NextToken ==
    \/ \E u \in Usernames, d \in Ttls : CreateToken(u, d)
    \/ VerifyToken
    \/ \E d \in TickSteps : Tick(d)

SpecToken == Init /\ [][NextToken]_vars

(***************************************************************************)
(* SpecValidate: validate_onboarding_data on its own, on one record.       *)
(***************************************************************************)
StringsUpTo(chars, n) == UNION {[1..k -> chars] : k \in 0..n}

NameInputs == StringsUpTo({"a", " ", "3"}, MaxNameLen)
EmailInputs == StringsUpTo({"a", "@", "."}, MaxEmailLen)
AgeInputs == {-1, 0, 1, 30}

\* the records of the uploads, every short name with some emails, and every
\* short email with some names
ValidateInputs ==
    {Jane, Dan, John3, Newborn}
    \cup [name : NameInputs, email : {Jane.email, <<"a", "@", "a">>, <<>>}, age : AgeInputs]
    \cup [name : {Jane.name, John3.name}, email : EmailInputs, age : AgeInputs]

InitValidate ==
    /\ Init!1 /\ Init!2 /\ Init!3 /\ Init!4 /\ Init!5 /\ Init!6 /\ Init!8
    /\ call \in {[f |-> "validate_onboarding_data", data |-> d] : d \in ValidateInputs}

Validate ==
    /\ last.op = "none"
    /\ last' = [op |-> "validate", req |-> call.data,
                result |-> validate_onboarding_data(call.data)]
    /\ UNCHANGED <<fake_users_db, uploads, hits, now, ticks, token, call>>

NextValidate == Validate

SpecValidate == InitValidate /\ [][NextValidate]_vars

(***************************************************************************)
(* SpecLimit: uploads of two clients, with and without a token, while time *)
(* passes.  call holds, per client, the log of the client's requests that  *)
(* passed get_current_user: the time of each and whether it was answered   *)
(* 429.                                                                    *)
(***************************************************************************)
LimitClients == {"10.0.0.1", "10.0.0.2"}

\* the number of requests in the logs of the given clients
RECURSIVE Logged(_, _)
Logged(log, clients) ==
    IF clients = {} THEN 0
    ELSE Len(log[CHOOSE c \in clients : TRUE])
         + Logged(log, clients \ {CHOOSE c \in clients : TRUE})

LoggedUpload(t, client, file, downstream) ==
    /\ call.f = "upload_file"
    /\ Logged(call.log, LimitClients) < MaxRequests
    /\ UploadAuthenticated([token |-> t, client |-> client, file |-> file,
                            downstream |-> downstream],
                           get_current_user(t, now))
    /\ call' = IF get_current_user(t, now).ok
               THEN [call EXCEPT !.log[client] =
                        Append(@, [at |-> now, limited |-> last'.status = 429])]
               ELSE call
    /\ UNCHANGED <<fake_users_db, now, ticks, token>>

InitLimit ==
    /\ Init!1 /\ Init!2 /\ Init!4 /\ Init!5 /\ Init!6 /\ Init!8
    /\ hits = [c \in LimitClients |-> NoHits]
    /\ call = [f |-> "upload_file", log |-> [c \in LimitClients |-> <<>>]]

NextLimit ==
    \/ \E c \in LimitClients, f \in {GoodCsv, TxtFile} :
          LoggedUpload(FreshToken(now), c, f, Accepting)
    \/ \E c \in LimitClients : LoggedUpload(NoToken, c, GoodCsv, Accepting)
    \/ \E d \in {1, SECONDS_PER_MINUTE} : Tick(d)

SpecLimit == InitLimit /\ [][NextLimit]_vars

(***************************************************************************)
(* SpecRace: signup requests whose executions overlap.  signup is a plain  *)
(* def, which the framework runs on a thread pool: between a request's     *)
(* test "user.username in fake_users_db" and its assignment to the store,  *)
(* while it hashes the password, other requests run.  call holds the       *)
(* requests that passed the test and have not yet stored (inflight) and    *)
(* the log of the answered signups (done).                                 *)
(***************************************************************************)
Remove(f, k) == [x \in DOMAIN f \ {k} |-> f[x]]

Answered(username, password, status) ==
    [username |-> username, password |-> password, status |-> status]

\* signup, from its entry to get_password_hash: the test of the username
SignupCheck(username, password) ==
    /\ call.f = "signup"
    /\ call.started < MaxSignups
    /\ IF username \in DOMAIN fake_users_db
       THEN /\ last' = Response("signup", [username |-> username, password |-> password],
                                400, HTTPException(400, "Username already registered"),
                                NoHeaders, NoBody, <<>>, <<>>)
            /\ call' = [call EXCEPT !.started = @ + 1,
                                    !.done = Append(@, Answered(username, password, 400))]
       ELSE /\ call' = [call EXCEPT !.started = @ + 1,
                                    !.inflight = Put(@, call.started + 1,
                                                     [username |-> username,
                                                      password |-> password])]
            /\ UNCHANGED last
    /\ UNCHANGED <<fake_users_db, uploads, hits, now, ticks, token>>

\* a signup that looks again before it stores (not the code's)
SignupStoreIfAbsent(r) ==
    /\ call.f = "signup"
    /\ r \in DOMAIN call.inflight
    /\ IF call.inflight[r].username \in DOMAIN fake_users_db
       THEN /\ last' = Response("signup", call.inflight[r], 400,
                                HTTPException(400, "Username already registered"),
                                NoHeaders, NoBody, <<>>, <<>>)
            /\ call' = [call EXCEPT !.inflight = Remove(@, r),
                                    !.done = Append(@, Answered(call.inflight[r].username,
                                                                call.inflight[r].password, 400))]
            /\ UNCHANGED fake_users_db
       ELSE /\ fake_users_db' = Put(fake_users_db, call.inflight[r].username,
                                    [username |-> call.inflight[r].username,
                                     email |-> call.inflight[r].username \o "@example.com",
                                     full_name |-> None,
                                     hashed_password |->
                                         get_password_hash(call.inflight[r].password)])
            /\ last' = Response("signup", call.inflight[r], 200, <<>>, NoHeaders,
                                Body(call.inflight[r].username, <<>>), <<>>, <<>>)
            /\ call' = [call EXCEPT !.inflight = Remove(@, r),
                                    !.done = Append(@, Answered(call.inflight[r].username,
                                                                call.inflight[r].password, 200))]
    /\ UNCHANGED <<uploads, hits, now, ticks, token>>

\* signup, from get_password_hash to its return: the assignment to the store
SignupStore(r) ==
    /\ call.f = "signup"
    /\ r \in DOMAIN call.inflight
    /\ fake_users_db' = Put(fake_users_db, call.inflight[r].username,
                            [username |-> call.inflight[r].username,
                             email |-> call.inflight[r].username \o "@example.com",
                             full_name |-> None,
                             hashed_password |-> get_password_hash(call.inflight[r].password)])
    /\ last' = Response("signup", call.inflight[r], 200, <<>>, NoHeaders,
                        Body(call.inflight[r].username, <<>>), <<>>, <<>>)
    /\ call' = [call EXCEPT !.inflight = Remove(@, r),
                            !.done = Append(@, Answered(call.inflight[r].username,
                                                        call.inflight[r].password, 200))]
    /\ UNCHANGED <<uploads, hits, now, ticks, token>>

InitRace ==
    /\ Init!1 /\ Init!2 /\ Init!3 /\ Init!4 /\ Init!5 /\ Init!6 /\ Init!8
    /\ call = [f |-> "signup", started |-> 0, inflight |-> <<>>, done |-> <<>>]

NextRace ==
    \/ \E u \in Usernames, p \in Passwords : SignupCheck(u, p)
    \/ \E r \in 1..MaxSignups : SignupStore(r)
    \/ \E u \in Usernames, p \in Passwords : Login(u, p)

SpecRace == InitRace /\ [][NextRace]_vars

(***************************************************************************)
(* SpecPdf: handle_pdf on its own, on one document of a few text lines.    *)
(***************************************************************************)
HeaderLine == <<"N", "a", "m", "e", " ", "a", "g", "e">>
BlankLine == <<" ">>
DanLine == <<"D", "a", "n", " ", "d", "@", "x", ".", "c", "o", " ", "4", "1">>
JaneLine == <<"J", "a", "n", "e", " ", "D", "o", "e", " ",
              "j", "@", "x", ".", "c", "o", " ", "3", "0">>
NoAgeLine == <<"D", "a", "n", " ", "d", "@", "x", ".", "c", "o">>
BadAgeLine == <<"D", "a", "n", " ", "d", "@", "x", ".", "c", "o", " ", "x", "1">>
NoEmailLine == <<"D", "a", "n", " ", "4", "1">>

LineInputs == {HeaderLine, BlankLine, DanLine, JaneLine, NoAgeLine, BadAgeLine, NoEmailLine}

PdfInputs == UNION {[1..k -> LineInputs] : k \in 0..MaxLines}

InitPdf ==
    /\ Init!1 /\ Init!2 /\ Init!3 /\ Init!4 /\ Init!5 /\ Init!6 /\ Init!8
    /\ call \in {[f |-> "handle_pdf", body |-> [format |-> "pdf", lines |-> ls]] :
                    ls \in PdfInputs}

ExtractPdf ==
    /\ call.f = "handle_pdf"
    /\ last.op = "none"
    /\ last' = [op |-> "handle_pdf", req |-> call.body, result |-> handle_pdf(call.body)]
    /\ UNCHANGED <<fake_users_db, uploads, hits, now, ticks, token, call>>

NextPdf == ExtractPdf

SpecPdf == InitPdf /\ [][NextPdf]_vars

(***************************************************************************)
(* The claims.                                                             *)
(***************************************************************************)

\* whether the record passes the schema's three field checks
RecordValid(record) == validate_onboarding_data(record).ok

\* C1: in any upload, a downstream POST is made only after every extracted
\* record has passed validation; if any record of the batch fails, whatever
\* its position, no POST is made (nothing is forwarded) and the upload is
\* rejected.  Checked on the last upload's response under SpecUpload.
C1_NoPartialForwarding ==
    last.op = "upload" =>
        LET x == ExtractByContentType(last.req.file)
            n == Len(x.records)
        IN  /\ last.posts # <<>> =>
                  /\ x.ok
                  /\ \A i \in 1..n : RecordValid(x.records[i])
                  /\ last.steps = <<"write", "extract">> \o Steps(n, "validate") \o <<"post">>
            /\ (x.ok /\ \E i \in 1..n : ~RecordValid(x.records[i])) =>
                  /\ last.posts = <<>>
                  /\ "post" \notin {last.steps[k] : k \in DOMAIN last.steps}
                  /\ last.status # 200

\* C1's case: a batch whose first record is valid and whose last is not was
\* validated record by record and rejected with nothing forwarded
C1_Witness ==
    /\ last.op = "upload"
    /\ last.req.file = BadLastCsv
    /\ last.steps = <<"write", "extract", "validate", "validate">>
    /\ last.posts = <<>>
    /\ last.status # 200

\* a step that is one POST /upload request being answered
UploadStep ==
    /\ last'.op = "upload"
    /\ now' = now
    /\ <<last, hits, uploads>>' # <<last, hits, uploads>>

\* the request of the upload step is a CSV file whose rows all satisfy the
\* schema, sent with the token the client's login issued, while the
\* downstream endpoint accepts the request
GoodCsvUploadStep ==
    /\ UploadStep
    /\ last'.req.token \in HeldToken
    /\ last'.req.file.content_type = CSV_TYPE
    /\ last'.req.file.suffix = ".csv"
    /\ last'.req.file.body.format = "csv"
    /\ \A i \in DOMAIN last'.req.file.body.rows : RecordValid(last'.req.file.body.rows[i])
    /\ last'.req.downstream = Accepting

\* the response of the step: 200, the success message, exactly one POST
\* carrying every record in the file's order
UploadSucceeded ==
    /\ last'.status = 200
    /\ last'.body.text = SUCCESS_MESSAGE
    /\ last'.posts = <<[data |-> last'.req.file.body.rows]>>

\* C2 as stated: after signup and login, an upload of a CSV file made with
\* the issued token, whose rows all satisfy the schema and while the
\* downstream endpoint accepts the request, completes with status 200 and
\* the success message, having made exactly one downstream POST that
\* carries every validated record in original order.
C2_Original == [][GoodCsvUploadStep => UploadSucceeded]_vars

\* C2 amended: the same, for an upload made while the token has not expired
\* and the client has had fewer than 5 uploads counted in the limiter's
\* current one-minute window.
C2_UploadSucceeds ==
    [][(/\ GoodCsvUploadStep
        /\ now <= last'.req.token.exp
        /\ \/ hits[last'.req.client].count < UPLOAD_LIMIT
           \/ now >= hits[last'.req.client].start + SECONDS_PER_MINUTE)
       => UploadSucceeded]_vars

\* C2's case: alice signed up, logged in and an upload of the two-row CSV
\* file made with the login's token was answered 200 after one POST of both
\* rows
C2_Witness ==
    /\ "alice" \in DOMAIN fake_users_db
    /\ last.op = "upload"
    /\ last.req.token \in HeldToken
    /\ last.req.file = GoodCsv
    /\ last.status = 200
    /\ last.body.text = SUCCESS_MESSAGE
    /\ last.posts = <<[data |-> <<Jane, Dan>>]>>

\* the last request was an upload that passed authentication and the limiter
PipelineRan == last.op = "upload" /\ last.status \notin {401, 429}

\* the four client errors of an upload: extension not allowed, content type
\* unmatched, no record extracted, a record that fails validation
UploadClientError(file) ==
    \/ file.suffix \notin ALLOWED_SUFFIXES
    \/ file.content_type \notin SUPPORTED_TYPES
    \/ /\ file.content_type \in {PDF_TYPE, DOCX_TYPE}
       /\ file.body.format \in {"pdf", "docx"}
       /\ ExtractByContentType(file).records = <<>>
    \/ \E i \in DOMAIN ExtractByContentType(file).records :
          ~RecordValid(ExtractByContentType(file).records[i])

\* C3 as stated: POST /upload answers with HTTP 400 and a human-readable
\* detail when the file extension is not allowed, when the declared content
\* type is unmatched, when extraction yields no records, or when a record
\* fails validation; only unexpected exceptions are answered with 500.
\* The code answers each of the four with 500: upload_file raises its
\* HTTPException(400) inside the try block whose "except Exception" catches
\* it and raises HTTPException(500, "An error occurred: 400: ...").
C3_ClientErrorsAnswered400 ==
    PipelineRan /\ UploadClientError(last.req.file) =>
        /\ last.status = 400
        /\ last.error # <<>>

\* the token is present, signed with the service's key, its payload parses,
\* its expiry has not passed at the given time and it has a sub claim
TokenVerifies(t, time) ==
    /\ t.wellformed
    /\ t.key = SECRET_KEY
    /\ t.json
    /\ ~(t.exp < time)
    /\ t.sub # None

\* C4: POST /upload performs no pipeline step (file save, extraction,
\* validation, downstream POST) unless the request carries a bearer token
\* that verifies; verification fails with a 401 whenever the signature is
\* invalid, the payload is unparsable, the expiry has passed or the sub
\* claim is absent.
C4_NoPipelineWithoutToken ==
    [][UploadStep =>
          IF TokenVerifies(last'.req.token, now)
          THEN last'.status # 401
          ELSE /\ last'.status = 401
               /\ Len(last'.error) = 1
               /\ last'.error[1].exc = "HTTPException"
               /\ last'.error[1].status = 401
               /\ last'.steps = <<>>
               /\ last'.posts = <<>>
               /\ uploads' = uploads
               /\ hits' = hits]_vars

\* C4's case: with files already stored, an upload carrying a correctly
\* signed token whose expiry has passed was answered 401 with no step taken
C4_Witness ==
    /\ last.op = "upload"
    /\ last.req.token.key = SECRET_KEY
    /\ last.req.token.sub = "alice"
    /\ last.req.token.exp < now
    /\ last.status = 401
    /\ last.steps = <<>>
    /\ last.posts = <<>>
    /\ DOMAIN uploads # {}

\* the ttl of the last create_access_token call, in seconds: the caller's,
\* or 15 minutes when the caller supplied none
RequestedTtl ==
    IF call.expires_delta = <<>> THEN DEFAULT_EXPIRE_MINUTES * SECONDS_PER_MINUTE
    ELSE call.expires_delta[1]

\* C5 as stated: a token issued at time t for subject s with ttl d carries
\* exp = t + d for every ttl d the caller supplies (15 minutes only when the
\* caller supplies none); it verifies to s at every time before t + d and
\* fails verification at every time after t + d.
\* The code tests "if expires_delta:", which is false for timedelta(0) as it
\* is for None, so a caller's ttl of zero is replaced by 15 minutes.
C5_ExpIsIssuePlusTtl ==
    call.f = "create_access_token" /\ token # <<>> =>
        /\ token[1].sub = call.sub
        /\ token[1].exp = call.at + RequestedTtl
        /\ (last.op = "verify" /\ last.req.token = token[1] /\ last.req.at >= call.at) =>
              /\ last.req.at < call.at + RequestedTtl =>
                    last.status = 200 /\ last.body.text = call.sub
              /\ last.req.at > call.at + RequestedTtl => last.status = 401

\* a step that is one POST /signup request being answered
SignupStep ==
    /\ last'.op = "signup"
    /\ <<last, fake_users_db>>' # <<last, fake_users_db>>

\* C6: in any sequence of non-overlapping signup and login requests, a
\* signup for a username already present in the credential store fails with
\* 400 and leaves the store unchanged, so a credential once stored is never
\* modified or removed.
C6_StoredCredentialsImmutable ==
    [][/\ \A u \in DOMAIN fake_users_db :
             u \in DOMAIN fake_users_db' /\ fake_users_db'[u] = fake_users_db[u]
       /\ (SignupStep /\ last'.req.username \in DOMAIN fake_users_db) =>
             /\ last'.status = 400
             /\ fake_users_db' = fake_users_db]_vars

\* C6's case: a signup for a stored username with another password was
\* answered 400 and the stored hash is still that of the first password
C6_Witness ==
    /\ last.op = "signup"
    /\ last.status = 400
    /\ last.req.username \in DOMAIN fake_users_db
    /\ fake_users_db[last.req.username].hashed_password
           # get_password_hash(last.req.password)

\* C7 as stated: uploads of identically-named files never overwrite one
\* another: for any sequence of accepted uploads with the same filename, at
\* any clock times including several within the same second, each upload
\* that finds its target path occupied is persisted under the name
\* stem_<unixtime>suffix and every earlier upload's file keeps its content.
\* The code renames once and does not look whether the new name is free: a
\* third upload of the name within one second replaces the second's file.
C7_NoOverwrite ==
    [][/\ \A p \in DOMAIN uploads : p \in DOMAIN uploads' /\ uploads'[p] = uploads[p]
       /\ (/\ UploadStep
           /\ "write" \in {last'.steps[k] : k \in DOMAIN last'.steps}
           /\ (last'.req.file.stem \o last'.req.file.suffix) \in DOMAIN uploads) =>
             LET renamed == TimestampedName(last'.req.file.stem, now, last'.req.file.suffix)
             IN  renamed \in DOMAIN uploads' /\ uploads'[renamed] = last'.req.file.body]_vars

\* C8: an upload whose filename extension is not in {.csv, .xlsx, .pdf,
\* .docx, .json} is rejected before collision handling, before any file
\* write and before any extraction, validation or forwarding; the set of
\* stored files and their contents is unchanged by the rejected upload.
C8_BadExtensionLeavesNoTrace ==
    [][(/\ UploadStep
        /\ last'.req.file.suffix \notin {".csv", ".xlsx", ".pdf", ".docx", ".json"}) =>
          /\ last'.status # 200
          /\ last'.steps = <<>>
          /\ last'.posts = <<>>
          /\ uploads' = uploads]_vars

\* C8's case: with a file already stored, an authenticated upload of
\* data.txt within the limiter's quota was rejected with no step taken
C8_Witness ==
    /\ PipelineRan
    /\ last.req.file.suffix = ".txt"
    /\ last.status # 200
    /\ last.steps = <<>>
    /\ last.posts = <<>>
    /\ DOMAIN uploads # {}
    /\ "data.txt" \notin DOMAIN uploads

\* the name is non-empty after trimming and purely alphabetic once its
\* spaces are removed
NameWellFormed(name) ==
    /\ strip(name) # <<>>
    /\ \A i \in 1..Len(name) : name[i] # " " => name[i] \in Letters

\* the text from a to b is non-empty and holds no "@"
NoAtRun(s, a, b) == a <= b /\ \A i \in a..b : s[i] # "@"

\* the email holds a match of [^@]+@[^@]+\.[^@]+ : a run without "@", an
\* "@", a run without "@", a ".", a run without "@"
EmailMatches(s) ==
    \E a, b, c, d \in 1..Len(s) :
        /\ NoAtRun(s, a, b)
        /\ b + 2 <= c /\ s[b + 1] = "@"
        /\ NoAtRun(s, b + 2, c)
        /\ c + 2 <= d /\ s[c + 1] = "."
        /\ NoAtRun(s, c + 2, d)

LoginStep ==
    /\ last'.op = "login"
    /\ <<last, token>>' # <<last, token>>

\* the one response of a failed login
LoginFailure ==
    [status |-> 401,
     error |-> <<[exc |-> "HTTPException", status |-> 401,
                  detail |-> "Incorrect username or password"]>>,
     headers |-> <<"WWW-Authenticate", "Bearer">>,
     body |-> NoBody]

\* C10: login returns the same 401 response (status, detail text and
\* headers) for an unknown username as for a known username with a wrong
\* password, and never modifies the credential store; with a correct
\* username and password it returns a bearer token whose sub claim is
\* exactly that username.
C10_LoginUniformFailure ==
    [][LoginStep =>
          /\ fake_users_db' = fake_users_db
          /\ IF /\ last'.req.username \in DOMAIN fake_users_db
                /\ fake_users_db[last'.req.username].hashed_password
                       = get_password_hash(last'.req.password)
             THEN /\ last'.status = 200
                  /\ last'.body.text = "bearer"
                  /\ Len(last'.body.token) = 1
                  /\ last'.body.token[1].sub = last'.req.username
                  /\ TokenVerifies(last'.body.token[1], now)
             ELSE [status |-> last'.status, error |-> last'.error,
                   headers |-> last'.headers, body |-> last'.body] = LoginFailure]_vars

\* C10's case: while bob is unknown, a login of the known user alice with a
\* wrong password was answered with the failure response
C10_Witness ==
    /\ last.op = "login"
    /\ last.req.username = "alice"
    /\ "alice" \in DOMAIN fake_users_db
    /\ "bob" \notin DOMAIN fake_users_db
    /\ fake_users_db["alice"].hashed_password # get_password_hash(last.req.password)
    /\ last.status = 401
    /\ last.error = Unauthorized("Incorrect username or password")

\* the start of the one-minute window that the i-th logged request of a
\* client falls in: a window opens at the first request and at the first
\* request made a minute or more after the current window opened
WindowAfter(start, at) == IF at >= start + 60 THEN at ELSE start

RECURSIVE WindowStart(_, _)
WindowStart(log, i) ==
    IF i = 1 THEN log[1].at
    ELSE WindowAfter(WindowStart(log, i - 1), log[i].at)

\* the number of requests logged before the i-th and not before the time
\* start
EarlierSince(log, i, start) == Cardinality({j \in 1..(i - 1) : log[j].at >= start})

\* the number of requests logged before the i-th in the i-th's window
EarlierInWindow(log, i) == EarlierSince(log, i, WindowStart(log, i))

\* the newest of a client's logged requests is answered 429 exactly when 5
\* or more earlier requests of that client fall in its window
NewestWithinQuota(log) == log[Len(log)].limited <=> EarlierInWindow(log, Len(log)) >= 5

\* C11: for each client key, at most 5 authenticated upload requests per
\* one-minute window reach the pipeline; every further authenticated request
\* in that window is rejected with a rate-limit response (429, distinct from
\* the 400/401/500 outcomes) before any save, extraction, validation or
\* forwarding step runs, and other clients' quotas are unaffected.
C11_UploadQuota ==
    [][/\ call' # call => NewestWithinQuota(call'.log[last'.req.client])
       /\ (UploadStep /\ last'.status = 429) =>
             /\ Len(last'.error) = 1
             /\ last'.error[1].status = 429
             /\ last'.steps = <<>>
             /\ last'.posts = <<>>
             /\ uploads' = uploads]_vars

\* C11's case: one client's sixth request of a window was answered 429 and,
\* after it and within that window, the other client's upload ran the
\* pipeline to its end
C11_Witness ==
    \E c, o \in DOMAIN hits :
        /\ c # o
        /\ call.f = "upload_file"
        /\ Len(call.log[c]) >= 6
        /\ call.log[c][6].limited
        /\ call.log[c][6].at = call.log[c][1].at
        /\ now < call.log[c][1].at + 60
        /\ last.op = "upload"
        /\ last.req.client = o
        /\ last.status = 200
        /\ last.steps # <<>>

\* C12: each upload makes at most one POST to the downstream endpoint: when
\* that POST returns a non-success status or the connection cannot be
\* established, the upload is answered with 500 and no second attempt is
\* made.
C12_AtMostOnePost ==
    last.op = "upload" =>
        /\ Len(last.posts) <= 1
        /\ Cardinality({k \in DOMAIN last.steps : last.steps[k] = "post"}) <= 1
        /\ (/\ "post" \in {last.steps[k] : k \in DOMAIN last.steps}
            /\ ~last.req.downstream.up \/ last.req.downstream.key # MOCK_API_KEY) =>
              /\ last.status = 500
              /\ Len(last.posts) = 1
              /\ last.body = NoBody

\* C12's case: every record was valid, the one POST was refused by the
\* endpoint (wrong key) and the upload was answered 500
C12_Witness ==
    /\ last.op = "upload"
    /\ last.req.downstream.up
    /\ last.req.downstream.key # MOCK_API_KEY
    /\ last.steps = <<"write", "extract", "validate", "validate", "post">>
    /\ Len(last.posts) = 1
    /\ last.status = 500

\* the last upload ran the pipeline as far as validation and some extracted
\* record fails the schema
SomeRecordInvalid ==
    /\ PipelineRan
    /\ last.req.file.suffix \in ALLOWED_SUFFIXES
    /\ ExtractByContentType(last.req.file).ok
    /\ \E i \in DOMAIN ExtractByContentType(last.req.file).records :
          ~RecordValid(ExtractByContentType(last.req.file).records[i])

\* the index of the first record that fails the schema
FirstInvalid(records) ==
    CHOOSE i \in DOMAIN records :
        /\ ~RecordValid(records[i])
        /\ \A j \in 1..(i - 1) : RecordValid(records[j])

\* the first field, in the schema's order, that the record violates
FirstBadField(record) ==
    IF ~NameWellFormed(record.name) THEN "name"
    ELSE IF ~EmailMatches(record.email) THEN "email"
    ELSE "age"

\* the error a failing upload of the file would be answered with
ErrorOf(file) == upload_file(uploads, file, last.req.downstream, now).error

\* C13 as stated: records of an upload are validated in their original
\* order; at the first record that fails, validation stops (no later record
\* is validated) and the error returned to the caller identifies both the
\* offending field name and the index of the offending record.  An error
\* identifies the index when uploads failing at different indexes are
\* answered with different errors; the code's detail, "Validation error in
\* <field> column data", is the same wherever the record stands.
C13_ErrorIdentifiesIndex ==
    SomeRecordInvalid =>
        \A f \in Files :
            (/\ f.suffix \in ALLOWED_SUFFIXES
             /\ ExtractByContentType(f).ok
             /\ \E i \in DOMAIN ExtractByContentType(f).records :
                   ~RecordValid(ExtractByContentType(f).records[i])
             /\ FirstInvalid(ExtractByContentType(f).records)
                    # FirstInvalid(ExtractByContentType(last.req.file).records))
            => ErrorOf(f) # last.error

\* the validation steps taken and the error returned when the first invalid
\* record is the i-th of records
StoppedAt(records, i) ==
    /\ last.steps = <<"write", "extract">> \o Steps(i, "validate")
    /\ last.posts = <<>>
    /\ Len(last.error) = 2
    /\ last.error[2].detail
           = "Validation error in " \o FirstBadField(records[i]) \o " column data"

\* C13 amended: records of an upload are validated in their original order;
\* at the first record that fails, validation stops (no later record is
\* validated) and the error returned to the caller names the offending
\* field, in the detail "Validation error in <field> column data", and not
\* the index of the offending record.
C13_StopsAtFirstInvalid ==
    SomeRecordInvalid =>
        StoppedAt(ExtractByContentType(last.req.file).records,
                  FirstInvalid(ExtractByContentType(last.req.file).records))

\* C13's case: the first of two records was invalid, one record was
\* validated, and the error names the age field
C13_Witness ==
    /\ last.op = "upload"
    /\ last.req.file = BadFirstCsv
    /\ last.steps = <<"write", "extract", "validate">>
    /\ Len(last.error) = 2
    /\ last.error[2].detail = "Validation error in age column data"

\* a step in which a signup that had passed the "not present" test stores
StoreStep ==
    /\ call.f = "signup"
    /\ Len(call'.done) = Len(call.done) + 1
    /\ DOMAIN call'.inflight # DOMAIN call.inflight

\* the two answered signups i and j, i before j, are successes for one
\* username with different passwords, and no success for that username
\* follows j
Overwrote(i, j) ==
    /\ i < j
    /\ call.done[i].status = 200
    /\ call.done[j].status = 200
    /\ call.done[i].username = call.done[j].username
    /\ call.done[i].password # call.done[j].password
    /\ \A k \in DOMAIN call.done :
          (k > j /\ call.done[k].status = 200) =>
              call.done[k].username # call.done[j].username

\* C14: two signup requests for the same not-yet-registered username whose
\* executions overlap can both pass the "not present" check before either
\* writes: both then return success and the later write replaces the
\* earlier credential, so the password of the request that wrote first no
\* longer logs in.  As a property of every behaviour: a signup that passed
\* the check returns success and stores its credential whatever the store
\* holds by then; after two successes for one username the stored hash is
\* the later one's; and a login with a password whose hash is not the
\* stored one is answered 401.
C14_LaterSignupWins ==
    [][/\ StoreStep =>
             /\ last'.status = 200
             /\ call'.done[Len(call'.done)].status = 200
             /\ fake_users_db'[last'.req.username].hashed_password
                    = get_password_hash(last'.req.password)
       /\ \A i, j \in DOMAIN call'.done :
             Overwrote(i, j)' =>
                 /\ fake_users_db'[call'.done[j].username].hashed_password
                        = get_password_hash(call'.done[j].password)
                 /\ fake_users_db'[call'.done[j].username].hashed_password
                        # get_password_hash(call'.done[i].password)
       /\ (/\ LoginStep
           /\ last'.req.username \in DOMAIN fake_users_db
           /\ fake_users_db[last'.req.username].hashed_password
                  # get_password_hash(last'.req.password)) => last'.status = 401]_vars

\* C14's case: two signups for alice were both answered 200, the second
\* replacing the first's credential, and a login with the first's password
\* was then answered 401
C14_Witness ==
    /\ call.f = "signup"
    /\ Len(call.done) = 2
    /\ Overwrote(1, 2)
    /\ call.done[1].username = "alice"
    /\ last.op = "login"
    /\ last.req = [username |-> "alice", password |-> call.done[1].password]
    /\ last.status = 401

\* the line is non-empty, does not start with "name", and its first token
\* containing "@" is immediately followed by an all-digit token
PdfLineQualifies(line) ==
    /\ strip(line) # <<>>
    /\ ~StartsWithName(line)
    /\ EmailIndex(split(line)) # 0
    /\ Len(split(line)) > EmailIndex(split(line))
    /\ isdigit(split(line)[EmailIndex(split(line)) + 1])

\* the record of a qualifying line: the tokens before the email joined by
\* spaces, the email, the next token as an integer
PdfRecordOf(line) ==
    [name |-> join(SubSeq(split(line), 1, EmailIndex(split(line)) - 1)),
     email |-> split(line)[EmailIndex(split(line))],
     age |-> ParseInt(split(line)[EmailIndex(split(line)) + 1])]

\* the records of the qualifying lines, in document order
RECURSIVE PdfExpected(_)
PdfExpected(lines) ==
    IF lines = <<>> THEN <<>>
    ELSE (IF PdfLineQualifies(Head(lines)) THEN <<PdfRecordOf(Head(lines))>> ELSE <<>>)
         \o PdfExpected(Tail(lines))

\* C15 as stated: PDF extraction returns, in document order, exactly one
\* record {name, email, age} for each non-empty line not starting with
\* "name" that has a first token containing "@" immediately followed by an
\* all-digit token (name = the preceding tokens joined by spaces, age = that
\* token as an integer); every other line is skipped without raising an
\* error, and extraction fails only when no line of the whole document
\* yields a record.
\* upload.py calls re.match without importing re: the first line that has a
\* token after its email raises NameError, so no document yields a record.
C15_PdfRecordsExtracted ==
    last.op = "handle_pdf" =>
        IF PdfExpected(last.req.lines) = <<>>
        THEN ~last.result.ok
        ELSE last.result.ok /\ last.result.records = PdfExpected(last.req.lines)

\* C16: an upload whose extension is allowed writes its file to the upload
\* directory before content-type dispatch, extraction, validation and
\* forwarding, and that file stays on disk when any of those later steps
\* fails: no step of the pipeline ever removes a stored file, so after any
\* sequence of uploads the set of stored files only grows.
C16_StoredFilesOnlyGrow ==
    [][/\ DOMAIN uploads \subseteq DOMAIN uploads'
       /\ (/\ UploadStep
           /\ last'.status \notin {401, 429}
           /\ last'.req.file.suffix \in {".csv", ".xlsx", ".pdf", ".docx", ".json"}) =>
             /\ last'.steps # <<>>
             /\ last'.steps[1] = "write"
             /\ \A k \in 2..Len(last'.steps) : last'.steps[k] # "write"
             /\ \E p \in {last'.req.file.stem \o last'.req.file.suffix,
                          TimestampedName(last'.req.file.stem, now, last'.req.file.suffix)} :
                   /\ p \in DOMAIN uploads'
                   /\ uploads'[p] = last'.req.file.body]_vars

\* C16's case: an upload of data.csv declared as text/plain failed at the
\* content-type dispatch, after its file was written, and the file is stored
C16_Witness ==
    /\ last.op = "upload"
    /\ last.req.file = PlainTypeCsv
    /\ last.steps = <<"write">>
    /\ last.status = 500
    /\ "data.csv" \in DOMAIN uploads
    /\ uploads["data.csv"] = PlainTypeCsv.body

=============================================================================
